---- MODULE Spec2Model ----
(***************************************************************************)
(* Model of the notebooks of tf-2-playground:                              *)
(*   - the Q&A retrieval notebook (SQuAD extraction, indexing cell,        *)
(*     retrieval cell, output_with_highlight, display_nearest_neighbors);  *)
(*   - the action recognition notebook (list_ucf_videos, fetch_ucf_video,  *)
(*     crop_center_square, load_video, predict).                           *)
(* Strings are sequences of one-character strings; markup tags and the     *)
(* fixed HTML blocks of result_md are single tokens.                       *)
(***************************************************************************)
EXTENDS Integers, Sequences, FiniteSets, TLC

VARIABLES
    pc,             \* position in the notebook (next cell / statement to run)
    squad,          \* squad_json, the downloaded dataset
    seed,           \* the process' hash seed: fixes the iteration order of set()
    sentences,      \* global `sentences`
    questions,      \* global `questions`
    index,          \* global `index` (simpleneighbors.SimpleNeighbors)
    loop_iters,     \* iterations of the indexing loop run so far
    loop_encoded,   \* (sentence, context) pairs passed to response_encoder by the loop
    events,         \* calls made on the index, in order
    query,          \* global `query` of the retrieval cell
    search_results, \* search_results of the last display_nearest_neighbors call
    result_md,      \* HTML passed to display() by the last display_nearest_neighbors call
    hl_text,        \* argument `text` of a stand-alone output_with_highlight call
    hl_highlight,   \* argument `highlight` of that call
    hl_result,      \* its return value
    n_queries,      \* executions of the retrieval cell so far
    dn_answer,      \* display_nearest_neighbors, run statement by statement: answer_text
    dn_results,     \* its search_results
    dn_done,        \* how many of them its `for s in search_results` loop has taken
    dn_md,          \* its result_md
    ow_highlight,   \* output_with_highlight, called by it: highlight
    ow_text,        \* its text
    ow_output,      \* its output
    VIDEO_LIST,     \* global _VIDEO_LIST
    page,           \* the index page of the server at UCF_ROOT, as last sent
    cache,          \* the files of _CACHE_DIR, by video name
    net_log,        \* the URLs requested so far, in order
    last_call,      \* the last list_ucf_videos / fetch_ucf_video call and its outcome
    cc_shape,       \* crop_center_square: frame.shape[0:2]
    cc_result,      \* its start offsets, min_dim and the rows and columns of the slice
    lv_video,       \* load_video: the file at path
    lv_max_frames,  \* its max_frames
    lv_resize,      \* its resize
    lv_read,        \* frames cap.read() has returned so far
    lv_frames,      \* its frames
    lv_released,    \* cap.release() calls so far
    lv_result,      \* its return value
    pr_logits,      \* predict: the logits the classifier returns
    pr_tie,         \* how np.argsort orders equal probabilities in this run
    pr_top,         \* the class ids its loop has taken, in order
    pr_lines        \* the lines it has printed after 'Top 5 actions:'

\* the state of the retrieval notebook, but for pc
retrieval_vars == <<squad, seed, sentences, questions, index, loop_iters, loop_encoded,
                    events, query, search_results, result_md, hl_text, hl_highlight,
                    hl_result, n_queries>>

\* display_nearest_neighbors and output_with_highlight run statement by statement
dn_vars == <<dn_answer, dn_results, dn_done, dn_md, ow_highlight, ow_text, ow_output>>

\* the state of the UCF101 utilities
ucf_vars == <<VIDEO_LIST, page, cache, net_log, last_call>>

cc_vars == <<cc_shape, cc_result>>

lv_vars == <<lv_video, lv_max_frames, lv_resize, lv_read, lv_frames, lv_released,
             lv_result>>

pr_vars == <<pr_logits, pr_tie, pr_top, pr_lines>>

\* the state of the action recognition notebook
video_vars == <<ucf_vars, cc_vars, lv_vars, pr_vars>>

vars == <<pc, retrieval_vars, dn_vars, video_vars>>

-----------------------------------------------------------------------------
(* Bounds of the model *)

\* paragraphs of a small hand-shaped dataset
MaxParagraphs == 2

\* paragraphs of a large synthetic dataset (about two sentences each)
MaxBigParagraphs == 104

\* hash seeds 0..MaxSeed
MaxSeed == 1

\* executions of the retrieval cell
MaxQueries == 2

\* length of `text` in a stand-alone output_with_highlight call
MaxTextLen == 4

\* length of `highlight` in a stand-alone output_with_highlight call
MaxHighlightLen == 2

-----------------------------------------------------------------------------
(* Program constants *)

batch_size == 100

num_results == 25

-----------------------------------------------------------------------------
(* Python helpers *)

Min(a, b) == IF a <= b THEN a ELSE b

\* seq[lo:hi] with 0-based, half-open Python bounds (0 <= lo, hi)
Slice(seq, lo, hi) == SubSeq(seq, lo + 1, Min(hi, Len(seq)))

\* [x] * n
Repeat(x, n) == [k \in 1..n |-> x]

\* zip(a, b): stops at the shorter argument
Zip(a, b) == [k \in 1..Min(Len(a), Len(b)) |-> <<a[k], b[k]>>]

Range(seq) == {seq[k] : k \in 1..Len(seq)}

Reverse(seq) == [k \in 1..Len(seq) |-> seq[Len(seq) + 1 - k]]

Rotate(seq, r) ==
    IF Len(seq) = 0 THEN seq
    ELSE [k \in 1..Len(seq) |-> seq[((k - 1 + r) % Len(seq)) + 1]]

\* concatenation of a sequence of sequences, by halves
RECURSIVE Concat(_)
Concat(seqs) ==
    IF seqs = <<>> THEN <<>>
    ELSE IF Len(seqs) = 1 THEN seqs[1]
    ELSE LET h == Len(seqs) \div 2
         IN  Concat(SubSeq(seqs, 1, h)) \o Concat(SubSeq(seqs, h + 1, Len(seqs)))

\* a number for a short string, different strings of the same length differing
RECURSIVE StrKey(_)
StrKey(str) ==
    IF str = <<>> THEN 0
    ELSE StrKey(SubSeq(str, 1, Len(str) - 1)) * 5
         + (CASE str[Len(str)] = "a" -> 1
              [] str[Len(str)] = "b" -> 2
              [] str[Len(str)] = "." -> 3
              [] OTHER -> 4)

\* 1, 2, ..., n
Ids(n) == [k \in 1..n |-> k] \o <<>>

\* the elements of seq, each once, in the order of their first occurrences
Distinct(seq) ==
    LET firsts == SelectSeq(Ids(Len(seq)),
                            LAMBDA k : seq[k] \notin Range(SubSeq(seq, 1, k - 1)))
    IN  [r \in 1..Len(firsts) |-> seq[firsts[r]]] \o <<>>

\* list(seq) without the set() conversion: a plausible slip
ListKeepDuplicates(seq, sd) == seq

\* list(set(seq)): the elements of seq, each once, in the iteration order of the
\* set, which the process' hash seed fixes
ListOfSet(seq, sd) ==
    LET turned == Rotate(Distinct(seq), sd \div 2)
    IN  (IF sd % 2 = 1 THEN Reverse(turned) ELSE turned) \o <<>>

\* str.find: 0-based position of the first occurrence of sub in text, -1 if none
find(text, sub) ==
    LET hits == {i \in 0..(Len(text) - Len(sub)) : Slice(text, i, i + Len(sub)) = sub}
    IN  IF hits = {} THEN -1
        ELSE CHOOSE i \in hits : \A j \in hits : i <= j

-----------------------------------------------------------------------------
(* External libraries, modelled by their contracts *)

\* nltk.tokenize.sent_tokenize: a sentence ends with its full stop; text after
\* the last full stop is a sentence of its own
RECURSIVE sent_tokenize(_)
sent_tokenize(text) ==
    IF text = <<>> THEN <<>>
    ELSE LET i == find(text, <<".">>)
         IN  IF i = -1 THEN <<text>>
             ELSE <<Slice(text, 0, i + 1)>> \o sent_tokenize(Slice(text, i + 1, Len(text)))

StrCode(str) == (StrKey(str) * 7 + Len(str)) % 360

\* One output row of the response encoder: a direction (degrees on the circle)
\* that depends on the sentence and on its context
Embed(text, context) == (StrCode(text) * 31 + StrCode(context) * 17) % 360

\* model.signatures['response_encoder'](input=..., context=...)['outputs']:
\* row k is computed from input[k] and context[k]
response_encoder(input, context) ==
    [k \in 1..Min(Len(input), Len(context)) |-> Embed(input[k], context[k])]

\* model.signatures['question_encoder'](tf.constant([query_text]))['outputs'][0]
question_encoder(query_text) == (StrCode(query_text) * 53) % 360

\* angular distance of two directions
angular(a, b) ==
    LET d == IF a > b THEN a - b ELSE b - a
    IN  Min(d, 360 - d)

\* simpleneighbors.SimpleNeighbors(dims, metric='angular')
SimpleNeighbors(dims) == [dims |-> dims, corpus |-> <<>>, built |-> FALSE]

\* index.add_one(items[k], vectors[k]) for k = 0, 1, ..., len(items) - 1: each
\* call appends one entry to the corpus
add_each(idx, items, vectors) ==
    [idx EXCEPT !.corpus =
        @ \o [k \in 1..Len(items) |-> [item |-> items[k], vec |-> vectors[k]]]]

\* index.build()
build(idx) == [idx EXCEPT !.built = TRUE]

\* index.nearest(vec, n): the items of the (at most) n entries nearest to vec,
\* nearest first; entries at the same distance in insertion order
nearest(idx, vec, n) ==
    LET N == Len(idx.corpus)
        key == [i \in 1..N |-> angular(idx.corpus[i].vec, vec) * (N + 1) + i] \o <<>>
        order == SortSeq(Ids(N), LAMBDA i, j : key[i] < key[j])
    IN  [r \in 1..Min(n, N) |-> idx.corpus[order[r]].item] \o <<>>

-----------------------------------------------------------------------------
(* SQuAD utility functions *)

\* zip(sentences, [context] * (len(sentences) - 1)): an off-by-one slip
paragraph_pairs_short(paragraph) ==
    LET sents == sent_tokenize(paragraph.context)
    IN  Zip(sents, Repeat(paragraph.context, Len(sents) - 1))

\* zip(sentences, [paragraph['context']] * len(sentences))
paragraph_pairs(paragraph) ==
    LET sents == sent_tokenize(paragraph.context)
    IN  Zip(sents, Repeat(paragraph.context, Len(sents)))

\* what `for paragraph in data['paragraphs']` extends all_sentences by
paragraphs_sentences(paragraphs) ==
    Concat([k \in 1..Len(paragraphs) |-> paragraph_pairs(paragraphs[k])])

\* all_sentences when the loops of extract_sentences_from_squad_json end
all_sentences(data) ==
    Concat([d \in 1..Len(data) |-> paragraphs_sentences(data[d].paragraphs)])

extract_sentences_from_squad_json(sq, sd) == ListOfSet(all_sentences(sq.data), sd)

\* a slip: the last answer instead of the first
qas_pair_last(qas) ==
    IF qas.answers # <<>>
    THEN << <<qas.question, qas.answers[Len(qas.answers)].text>> >>
    ELSE <<>>

\* if qas['answers']: questions.append((qas['question'], qas['answers'][0]['text']))
qas_pair(qas) ==
    IF qas.answers # <<>>
    THEN << <<qas.question, qas.answers[1].text>> >>
    ELSE <<>>

\* what `for qas in paragraph['qas']` appends to questions
qas_questions(qaslist) == Concat([k \in 1..Len(qaslist) |-> qas_pair(qaslist[k])])

\* what `for paragraph in data['paragraphs']` appends to questions
paragraphs_questions(paragraphs) ==
    Concat([k \in 1..Len(paragraphs) |-> qas_questions(paragraphs[k].qas)])

\* questions when the loops of extract_questions_from_squad_json end
all_questions(data) ==
    Concat([d \in 1..Len(data) |-> paragraphs_questions(data[d].paragraphs)])

extract_questions_from_squad_json(sq, sd) == ListOfSet(all_questions(sq.data), sd)

-----------------------------------------------------------------------------
(* Visualization functions *)

\* the loop without `output += text` on leaving it: a slip
RECURSIVE highlight_loop_drops_match(_, _, _)
highlight_loop_drops_match(output, text, highlight) ==
    LET i == find(text, highlight)
    IN  IF i = -1 THEN output \o text
        ELSE highlight_loop_drops_match(
                 output \o Slice(text, 0, i) \o <<"<b>">> \o <<"<b>">>,
                 Slice(text, i + Len(highlight), Len(text)),
                 highlight)

RECURSIVE highlight_loop_drops_rest(_, _, _)
highlight_loop_drops_rest(output, text, highlight) ==
    LET i == find(text, highlight)
    IN  IF i = -1 THEN output
        ELSE highlight_loop_drops_rest(
                 output \o Slice(text, 0, i)
                        \o <<"<b>">> \o Slice(text, i, i + Len(highlight)) \o <<"<b>">>,
                 Slice(text, i + Len(highlight), Len(text)),
                 highlight)

\* the loop of output_with_highlight, from a state (output, text) with
\* i = text.find(highlight)
RECURSIVE highlight_loop(_, _, _)
highlight_loop(output, text, highlight) ==
    LET i == find(text, highlight)
    IN  IF i = -1 THEN output \o text
        ELSE highlight_loop(
                 output \o Slice(text, 0, i)
                        \o <<"<b>">> \o Slice(text, i, i + Len(highlight)) \o <<"<b>">>,
                 Slice(text, i + Len(highlight), Len(text)),
                 highlight)

output_with_highlight(text, highlight) ==
    highlight_loop(<<"<li> ">>, text, highlight) \o <<"</li>\n">>

\* '<li>' + s + '</li>\n'
plain_item(s) == <<"<li>">> \o s \o <<"</li>\n">>

\* the results rendered last to first: a slip
render_items_reversed(results, answer_text) ==
    Concat([k \in 1..Len(results) |->
              IF answer_text # <<>>
              THEN output_with_highlight(results[Len(results) + 1 - k], answer_text)
              ELSE plain_item(results[Len(results) + 1 - k])])

\* what the `for s in search_results` loops add to result_md
render_items(results, answer_text) ==
    Concat([k \in 1..Len(results) |->
              IF answer_text # <<>>
              THEN output_with_highlight(results[k], answer_text)
              ELSE plain_item(results[k])])

\* result_md of display_nearest_neighbors, given search_results; answer_text
\* None and '' are both the empty sequence (only its truthiness is read)
render_results(query_text, answer_text, results) ==
    (IF answer_text # <<>>
     THEN <<"<p>Random Question from SQuAD:</p><p>&nbsp;&nbsp;<b>">> \o query_text
          \o <<"</b></p><p>Answer:</p><p>&nbsp;&nbsp;<b>">> \o answer_text \o <<"</b></p>">>
     ELSE <<"<p>Random Question from SQuAD:</p><p>&nbsp;&nbsp;<b>">> \o query_text
          \o <<"</b></p>">>)
    \o <<"<p>Retrieved sentences:<ol>">>
    \o render_items(results, answer_text)
    \o <<"</ol>">>

\* search_results of display_nearest_neighbors
search(idx, query_text) == nearest(idx, question_encoder(query_text), num_results)

-----------------------------------------------------------------------------
(* Inputs: the datasets download_squad may return *)

SeqsUpTo(S, n) == UNION {[1..k -> S] : k \in 0..n}

Answer(str) == [text |-> str]

\* contexts of the small datasets: a sentence shared by two paragraphs ("b."),
\* and a paragraph that repeats a sentence ("a.a.")
SmallContexts == { <<"a", ".", "b", ".">>, <<"b", ".">>, <<"a", ".", "a", ".">> }

\* qas lists of the small datasets: a question without answers; a question
\* with two answers and one whose answer is the empty text; the same question
\* twice with the same first answer
SmallQas ==
    { << [question |-> <<"p", "?">>, answers |-> <<>>] >>,
      << [question |-> <<"p", "?">>, answers |-> <<Answer(<<"a">>), Answer(<<"b">>)>>],
         [question |-> <<"r", "?">>, answers |-> <<Answer(<<>>)>>] >>,
      << [question |-> <<"q", "?">>, answers |-> <<Answer(<<"b">>)>>],
         [question |-> <<"q", "?">>, answers |-> <<Answer(<<"b">>), Answer(<<"a">>)>>] >> }

SmallParagraphs == [context : SmallContexts, qas : SmallQas]

\* the paragraphs in one data entry, or the first paragraph in a data entry of
\* its own
MakeSquad(paragraphs, split) ==
    IF split /\ paragraphs # <<>>
    THEN [data |-> << [paragraphs |-> <<Head(paragraphs)>>],
                      [paragraphs |-> Tail(paragraphs)] >>]
    ELSE [data |-> << [paragraphs |-> paragraphs] >>]

SmallSquads ==
    { MakeSquad(ps, split) : ps \in SeqsUpTo(SmallParagraphs, MaxParagraphs),
                             split \in BOOLEAN }

Words ==
    << <<"a">>, <<"b">>, <<"a", "a">>, <<"a", "b">>, <<"b", "a">>, <<"b", "b">>,
       <<"a", "a", "a">>, <<"a", "a", "b">>, <<"a", "b", "a">>, <<"a", "b", "b">>,
       <<"b", "a", "a">>, <<"b", "a", "b">>, <<"b", "b", "a">>, <<"b", "b", "b">> >>

\* paragraph k of a large dataset: two sentences (one, repeated, when the two
\* words are the same); the first three paragraphs carry a question
BigParagraph(k) ==
    LET w1 == Words[((k - 1) % Len(Words)) + 1]
        w2 == Words[(((k - 1) \div Len(Words)) % Len(Words)) + 1]
    IN  [context |-> w1 \o <<".">> \o w2 \o <<".">>,
         qas |-> CASE k = 1 -> << [question |-> <<"s", "?">>,
                                   answers |-> <<Answer(<<"a">>)>>] >>
                   [] k = 2 -> << [question |-> <<"t", "?">>,
                                   answers |-> <<Answer(<<"b", "b">>)>>] >>
                   [] k = 3 -> << [question |-> <<"u", "?">>,
                                   answers |-> <<Answer(<<>>)>>] >>
                   [] OTHER -> <<>>]

BigSquads ==
    { [data |-> << [paragraphs |-> [k \in 1..p |-> BigParagraph(k)]] >>] :
        p \in 3..MaxBigParagraphs }

-----------------------------------------------------------------------------
(* The indexing cell *)

\* slices with the trailing partial batch kept (what slicing by range steps,
\* or itertools.zip_longest, would yield)
RECURSIVE slices_keep_tail(_)
slices_keep_tail(rest) ==
    IF rest = <<>> THEN <<>>
    ELSE <<SubSeq(rest, 1, Min(batch_size, Len(rest)))>>
         \o slices_keep_tail(SubSeq(rest, batch_size + 1, Len(rest)))

\* slices = zip(*(iter(sentences),) * batch_size): every tuple takes batch_size
\* consecutive elements from the one iterator; zip stops at the first tuple it
\* cannot fill
RECURSIVE slices(_)
slices(rest) ==
    IF Len(rest) < batch_size THEN <<>>
    ELSE <<SubSeq(rest, 1, batch_size)>> \o slices(SubSeq(rest, batch_size + 1, Len(rest)))

\* num_batches = int(len(sentences) / batch_size)
num_batches(sents) == Len(sents) \div batch_size

\* response_batch = list([r for r, c, in s])
response_batch(s) == [k \in 1..Len(s) |-> s[k][1]]

\* the contexts in reverse order: a slip that misaligns the two batches
context_batch_reversed(s) == [k \in 1..Len(s) |-> s[Len(s) + 1 - k][2]]

\* context_batch = list([c for r, c in s])
context_batch(s) == [k \in 1..Len(s) |-> s[k][2]]

\* for batch_index, batch in enumerate(response_batch):
\*     index.add_one(batch, encodings['outputs'][batch_index])
add_batch(idx, responses, outputs) == add_each(idx, responses, outputs)

NoQuery == << <<>>, <<>> >>

-----------------------------------------------------------------------------
(* The parts of the state a specification leaves alone *)

RetrievalIdle ==
    /\ squad = [data |-> <<>>]
    /\ seed = 0
    /\ sentences = <<>>
    /\ questions = <<>>
    /\ index = SimpleNeighbors(0)
    /\ loop_iters = 0
    /\ loop_encoded = <<>>
    /\ events = <<>>
    /\ query = NoQuery
    /\ search_results = <<>>
    /\ result_md = <<>>
    /\ hl_text = <<>>
    /\ hl_highlight = <<>>
    /\ hl_result = <<>>
    /\ n_queries = 0

DisplayIdle ==
    /\ dn_answer = <<>>
    /\ dn_results = <<>>
    /\ dn_done = 0
    /\ dn_md = <<>>
    /\ ow_highlight = <<>>
    /\ ow_text = <<>>
    /\ ow_output = <<>>

\* no call made yet
NoCall == [fn |-> "none", video |-> <<>>, existed |-> FALSE, requests |-> 0,
           raised |-> FALSE, ret |-> <<>>]

\* _VIDEO_LIST = None
None == [is_none |-> TRUE, list |-> <<>>]

UcfIdle ==
    /\ VIDEO_LIST = None
    /\ page = <<>>
    /\ cache = <<>>
    /\ net_log = <<>>
    /\ last_call = NoCall

CropIdle ==
    /\ cc_shape = <<0, 0>>
    /\ cc_result = <<>>

LoadIdle ==
    /\ lv_video = <<>>
    /\ lv_max_frames = 0
    /\ lv_resize = 0
    /\ lv_read = 0
    /\ lv_frames = <<>>
    /\ lv_released = 0
    /\ lv_result = <<>>

PredictIdle ==
    /\ pr_logits = <<>>
    /\ pr_tie = 0
    /\ pr_top = <<>>
    /\ pr_lines = <<>>

VideoIdle == UcfIdle /\ CropIdle /\ LoadIdle /\ PredictIdle

-----------------------------------------------------------------------------
(* The notebook, cell by cell *)

Init ==
    /\ pc = "extraction"
    /\ squad \in SmallSquads \cup BigSquads
    /\ seed \in 0..MaxSeed
    /\ sentences = <<>>
    /\ questions = <<>>
    /\ index = SimpleNeighbors(0)
    /\ loop_iters = 0
    /\ loop_encoded = <<>>
    /\ events = <<>>
    /\ query = NoQuery
    /\ search_results = <<>>
    /\ result_md = <<>>
    /\ hl_text = <<>>
    /\ hl_highlight = <<>>
    /\ hl_result = <<>>
    /\ n_queries = 0
    /\ DisplayIdle
    /\ VideoIdle

\* the SQuAD extraction cell; random.choice(sentences) raises IndexError on an
\* empty list, after sentences and questions have been assigned
ExtractionCell ==
    /\ pc = "extraction"
    /\ sentences' = extract_sentences_from_squad_json(squad, seed)
    /\ questions' = extract_questions_from_squad_json(squad, seed)
    /\ pc' = IF sentences' = <<>> THEN "error" ELSE "index_setup"
    /\ UNCHANGED <<squad, seed, index, loop_iters, loop_encoded, events, query,
                   search_results, result_md, hl_text, hl_highlight, hl_result, n_queries>>
    /\ UNCHANGED <<dn_vars, video_vars>>

\* the indexing cell up to the loop: the probe encoding of sentences[0] gives
\* the dimension (one direction per row here) and the index is created
IndexSetup ==
    /\ pc = "index_setup"
    /\ index' = SimpleNeighbors(
                    Len(response_encoder(<<sentences[1][1]>>, <<sentences[1][2]>>)))
    /\ events' = Append(events, "create")
    /\ loop_iters' = 0
    /\ pc' = "index_loop"
    /\ UNCHANGED <<squad, seed, sentences, questions, loop_encoded, query,
                   search_results, result_md, hl_text, hl_highlight, hl_result, n_queries>>
    /\ UNCHANGED <<dn_vars, video_vars>>

\* one iteration of the loop with index.build() indented into its body: a slip
IndexLoopIterationBuilds ==
    /\ pc = "index_loop"
    /\ loop_iters < Len(slices(sentences))
    /\ LET s == slices(sentences)[loop_iters + 1]
           responses == response_batch(s)
           contexts == context_batch(s)
           outputs == response_encoder(responses, contexts)
       IN  /\ index' = build(add_batch(index, responses, outputs))
           /\ loop_encoded' = loop_encoded \o Zip(responses, contexts)
           /\ events' = events \o Repeat("add_one", Len(responses)) \o <<"build">>
    /\ loop_iters' = loop_iters + 1
    /\ UNCHANGED <<pc, squad, seed, sentences, questions, query, search_results,
                   result_md, hl_text, hl_highlight, hl_result, n_queries>>
    /\ UNCHANGED <<dn_vars, video_vars>>

\* one iteration of `for s in tqdm(slices, total=num_batches)`
IndexLoopIteration ==
    /\ pc = "index_loop"
    /\ loop_iters < Len(slices(sentences))
    /\ LET s == slices(sentences)[loop_iters + 1]
           responses == response_batch(s)
           contexts == context_batch(s)
           outputs == response_encoder(responses, contexts)
       IN  /\ index' = add_batch(index, responses, outputs)
           /\ loop_encoded' = loop_encoded \o Zip(responses, contexts)
           /\ events' = events \o Repeat("add_one", Len(responses))
    /\ loop_iters' = loop_iters + 1
    /\ UNCHANGED <<pc, squad, seed, sentences, questions, query, search_results,
                   result_md, hl_text, hl_highlight, hl_result, n_queries>>
    /\ UNCHANGED <<dn_vars, video_vars>>

\* slices is exhausted: index.build() and the final print
IndexBuild ==
    /\ pc = "index_loop"
    /\ loop_iters >= Len(slices(sentences))
    /\ index' = build(index)
    /\ events' = Append(events, "build")
    /\ pc' = "retrieval"
    /\ UNCHANGED <<squad, seed, sentences, questions, loop_iters, loop_encoded, query,
                   search_results, result_md, hl_text, hl_highlight, hl_result, n_queries>>
    /\ UNCHANGED <<dn_vars, video_vars>>

\* display_nearest_neighbors(query_text, answer_text)
display_nearest_neighbors(query_text, answer_text) ==
    /\ search_results' = search(index, query_text)
    /\ events' = Append(events, "nearest")
    /\ result_md' = render_results(query_text, answer_text, search_results')

\* the retrieval cell: query = random.choice(questions), then the display
RetrievalCell ==
    /\ pc = "retrieval"
    /\ n_queries < MaxQueries
    /\ questions # <<>>
    /\ \E q \in Range(questions) :
         /\ query' = q
         /\ display_nearest_neighbors(q[1], q[2])
    /\ n_queries' = n_queries + 1
    /\ UNCHANGED <<pc, squad, seed, sentences, questions, index, loop_iters,
                   loop_encoded, hl_text, hl_highlight, hl_result>>
    /\ UNCHANGED <<dn_vars, video_vars>>

\* the retrieval cell with no question extracted: random.choice raises IndexError
RetrievalCellNoQuestion ==
    /\ pc = "retrieval"
    /\ questions = <<>>
    /\ pc' = "error"
    /\ UNCHANGED <<squad, seed, sentences, questions, index, loop_iters, loop_encoded,
                   events, query, search_results, result_md, hl_text, hl_highlight,
                   hl_result, n_queries>>
    /\ UNCHANGED <<dn_vars, video_vars>>

Next ==
    \/ ExtractionCell
    \/ IndexSetup
    \/ IndexLoopIteration
    \/ IndexBuild
    \/ RetrievalCell
    \/ RetrievalCellNoQuestion

Spec == Init /\ [][Next]_vars

-----------------------------------------------------------------------------
(* output_with_highlight on its own *)

Letters == {"a", "b"}

InitHighlight ==
    /\ pc = "highlight_call"
    /\ hl_text \in SeqsUpTo(Letters, MaxTextLen)
    /\ hl_highlight \in SeqsUpTo(Letters, MaxHighlightLen) \ {<<>>}
    /\ hl_result = <<>>
    /\ squad = [data |-> <<>>]
    /\ seed = 0
    /\ sentences = <<>>
    /\ questions = <<>>
    /\ index = SimpleNeighbors(0)
    /\ loop_iters = 0
    /\ loop_encoded = <<>>
    /\ events = <<>>
    /\ query = NoQuery
    /\ search_results = <<>>
    /\ result_md = <<>>
    /\ n_queries = 0
    /\ DisplayIdle
    /\ VideoIdle

HighlightCall ==
    /\ pc = "highlight_call"
    /\ hl_result' = output_with_highlight(hl_text, hl_highlight)
    /\ pc' = "highlight_done"
    /\ UNCHANGED <<squad, seed, sentences, questions, index, loop_iters, loop_encoded,
                   events, query, search_results, result_md, hl_text, hl_highlight,
                   n_queries>>
    /\ UNCHANGED <<dn_vars, video_vars>>

NextHighlight == HighlightCall

SpecHighlight == InitHighlight /\ [][NextHighlight]_vars

-----------------------------------------------------------------------------
(* Properties *)

\* the paragraphs of the dataset, over all data entries
ParagraphsOf(sq) ==
    UNION { Range(sq.data[d].paragraphs) : d \in 1..Len(sq.data) }

\* the qas entries of the dataset, over all paragraphs
QasOf(sq) == UNION { Range(p.qas) : p \in ParagraphsOf(sq) }

\* the extraction cell has assigned sentences and questions
Extracted == pc \in {"index_setup", "index_loop", "retrieval"}

\* whole batches in sentences
WholeBatches == Len(sentences) \div batch_size

\* C1: once the indexing cell has run, the index holds an entry for every
\* (text, context) tuple of sentences, and the printed count len(sentences) is
\* the number of entries added.
C1_IndexHoldsEverySentence ==
    index.built =>
        /\ Len(index.corpus) = Len(sentences)
        /\ \A k \in 1..Len(sentences) :
              [item |-> sentences[k][1],
               vec |-> Embed(sentences[k][1], sentences[k][2])] \in Range(index.corpus)

RECURSIVE Emphasised(_, _)
Emphasised(text, highlight) ==
    IF text = <<>> THEN <<>>
    ELSE IF Len(text) >= Len(highlight) /\ SubSeq(text, 1, Len(highlight)) = highlight
    THEN <<"<b>">> \o highlight \o <<"</b>">>
         \o Emphasised(SubSeq(text, Len(highlight) + 1, Len(text)), highlight)
    ELSE <<Head(text)>> \o Emphasised(Tail(text), highlight)

\* C3: output_with_highlight puts every (left-to-right, non-overlapping)
\* occurrence of a non-empty highlight between an opening emphasis tag and the
\* matching closing emphasis tag, and wraps nothing else.
C3_WrapsEveryOccurrence ==
    pc = "highlight_done" =>
        hl_result = <<"<li> ">> \o Emphasised(hl_text, hl_highlight) \o <<"</li>\n">>

\* highlight occurs in text
Occurs(text, highlight) ==
    \E i \in 1..(Len(text) - Len(highlight) + 1) :
        SubSeq(text, i, i + Len(highlight) - 1) = highlight

\* C4: when highlight does not occur in text, the result is the list-item
\* opener, text unchanged, the list-item closer, and holds no emphasis tag.
C4_AbsentUnmodified ==
    (pc = "highlight_done" /\ ~Occurs(hl_text, hl_highlight)) =>
        /\ hl_result = <<"<li> ">> \o hl_text \o <<"</li>\n">>
        /\ "<b>" \notin Range(hl_result)

C4_Witness ==
    /\ pc = "highlight_done"
    /\ ~Occurs(hl_text, hl_highlight)
    /\ Len(hl_text) >= Len(hl_highlight)
    /\ \E c \in Range(hl_highlight) : c \in Range(hl_text)

\* C5: the list returned by extract_sentences_from_squad_json holds no
\* (sentence, context) pair at two positions.
C5_SentencesNoDuplicate ==
    Extracted => Cardinality(Range(sentences)) = Len(sentences)

\* the same pair was collected twice: a paragraph repeated in the dataset, or a
\* sentence repeated in a paragraph
C5_Witness ==
    /\ Extracted
    /\ Len(sentences) >= 2
    /\ Len(all_sentences(squad.data)) > Len(sentences)

\* C6: as a set, the result of extract_sentences_from_squad_json is the set of
\* pairs (s, p.context), p a paragraph of any data entry and s a sentence the
\* tokenizer produces from p.context.
C6_SentencesOfEveryParagraph ==
    (Extracted \/ pc = "error") =>
        Range(sentences) =
            UNION { { <<s, p.context>> : s \in Range(sent_tokenize(p.context)) } :
                    p \in ParagraphsOf(squad) }

\* a sentence that two paragraphs with different contexts share
C6_Witness ==
    /\ Extracted
    /\ \E i, j \in 1..Len(sentences) :
          /\ sentences[i][1] = sentences[j][1]
          /\ sentences[i][2] # sentences[j][2]

\* C7: as a set, the result of extract_questions_from_squad_json is the set of
\* (question, text of the first answer) pairs over the qas entries with a
\* non-empty answers list, and the list holds no pair twice.
C7_QuestionsWithFirstAnswer ==
    (Extracted \/ pc = "error") =>
        /\ Range(questions) =
              { <<q.question, q.answers[1].text>> :
                  q \in { r \in QasOf(squad) : Len(r.answers) >= 1 } }
        /\ Cardinality(Range(questions)) = Len(questions)

\* the dataset holds a question without answers, a question whose later answer
\* differs from the first, and a pair that was collected twice
C7_Witness ==
    /\ Extracted
    /\ \E q \in QasOf(squad) : q.answers = <<>>
    /\ \E q \in QasOf(squad) : Len(q.answers) >= 2 /\ q.answers[2] # q.answers[1]
    /\ Len(all_questions(squad.data)) > Len(questions)

\* C8: every entry added by the indexing loop holds a sentence text and the
\* encoder row computed from that sentence and its own context: the k-th entry
\* comes from the k-th pair given to the encoder, which is a pair of sentences.
C8_EntryHasOwnEmbedding ==
    pc \in {"index_loop", "retrieval"} =>
        /\ Len(index.corpus) = Len(loop_encoded)
        /\ \A k \in 1..Len(index.corpus) :
              /\ loop_encoded[k] = sentences[k]
              /\ index.corpus[k].item = sentences[k][1]
              /\ index.corpus[k].vec = Embed(sentences[k][1], sentences[k][2])

\* two batches were added, and a sentence text entered the index twice, with
\* the embeddings of its two contexts
C8_Witness ==
    /\ pc = "retrieval"
    /\ loop_iters >= 2
    /\ \E i, j \in 1..batch_size :
          /\ index.corpus[i].item = index.corpus[j].item
          /\ index.corpus[i].vec # index.corpus[j].vec

\* C9: the calls on the index are the creation, then the add_one calls, then one
\* build, then the nearest calls: no add_one after the build and no nearest
\* before it.
C9_CreateAddBuildQuery ==
    \/ events = <<>>
    \/ events = <<"create">>
                \o Repeat("add_one", Len(index.corpus))
                \o (IF index.built
                    THEN <<"build">> \o Repeat("nearest", n_queries)
                    ELSE <<>>)

C9_Witness ==
    /\ n_queries >= 1
    /\ Len(index.corpus) >= batch_size
    /\ events[Len(events)] = "nearest"

\* the list items of rendered HTML: what stands between a list-item opener and
\* the next closer, without the emphasis tags
ItemsOf(md) ==
    LET opens == SelectSeq(Ids(Len(md)), LAMBDA i : md[i] \in {"<li> ", "<li>"})
        closes == SelectSeq(Ids(Len(md)), LAMBDA i : md[i] = "</li>\n")
    IN  [r \in 1..Len(opens) |->
            SelectSeq(SubSeq(md, opens[r] + 1, closes[r] - 1), LAMBDA t : t # "<b>")]

\* C10: display_nearest_neighbors renders one list item per search result, at
\* most num_results items, in the order the index returned them, each the
\* sentence of an entry of the index.
C10_OneItemPerResult ==
    n_queries >= 1 =>
        /\ Len(search_results) = Min(num_results, Len(index.corpus))
        /\ Len(SelectSeq(result_md, LAMBDA t : t = "</li>\n")) = Len(search_results)
        /\ ItemsOf(result_md) = search_results
        /\ \A k \in 1..Len(search_results) :
              \E e \in Range(index.corpus) : e.item = search_results[k]

\* a full page of results, with the answer emphasised in one of them
C10_Witness ==
    /\ n_queries >= 1
    /\ Len(search_results) = num_results
    /\ query[2] # <<>>
    /\ "<b>" \in Range(result_md)
    /\ search_results[1] # search_results[num_results]

-----------------------------------------------------------------------------
(* The action recognition notebook: UCF101 utilities                       *)
(*                                                                         *)
(* A page or a file name is a sequence of tokens: "v", "_" and "x" are     *)
(* word characters, ".avi" is the literal suffix, " " is any character     *)
(* that is not a word character.                                           *)

WordChars == {"v", "_", "x"}

PageTokens == WordChars \cup {".avi", " "}

\* the code point a token starts with
TokenCode(t) ==
    CASE t = " " -> 32
      [] t = ".avi" -> 46
      [] t = "_" -> 95
      [] t = "v" -> 118
      [] t = "x" -> 120

\* str < str on Python strings
StrLess(a, b) ==
    \E k \in 1..(Min(Len(a), Len(b)) + 1) :
        /\ SubSeq(a, 1, k - 1) = SubSeq(b, 1, k - 1)
        /\ \/ k > Len(a) /\ k <= Len(b)
           \/ k <= Len(a) /\ k <= Len(b) /\ TokenCode(a[k]) < TokenCode(b[k])

\* the number of word characters of text from position p on
WordRun(text, p) ==
    LET stops == {q \in p..Len(text) : text[q] \notin WordChars}
    IN  IF stops = {} THEN Len(text) + 1 - p
        ELSE (CHOOSE q \in stops : \A r \in stops : q <= r) - p

\* where the match of 'v_[\w_]+\.avi' that starts at p ends, 0 if there is none:
\* the longest run of word characters the suffix follows
MatchEnd(text, p) ==
    IF p + 1 <= Len(text) /\ text[p] = "v" /\ text[p + 1] = "_"
    THEN LET runs == {r \in 1..WordRun(text, p + 2) :
                         p + 2 + r <= Len(text) /\ text[p + 2 + r] = ".avi"}
         IN  IF runs = {} THEN 0
             ELSE p + 2 + (CHOOSE r \in runs : \A q \in runs : q <= r)
    ELSE 0

RECURSIVE findall_from(_, _)
\* re.findall from position p on: leftmost matches, none overlapping another
findall_from(text, p) ==
    IF p > Len(text) THEN <<>>
    ELSE IF MatchEnd(text, p) > 0
         THEN <<SubSeq(text, p, MatchEnd(text, p))>>
              \o findall_from(text, MatchEnd(text, p) + 1)
         ELSE findall_from(text, p + 1)

findall(text) == findall_from(text, 1)

\* sorted(set(videos))
sorted_set(videos) == SortSeq(Distinct(videos), StrLess)

\* what a request to the server ends with
Failure == [ok |-> FALSE, body |-> <<>>]

Response(body) == [ok |-> TRUE, body |-> body]

\* not _VIDEO_LIST
IsUnset(video_list) == video_list.is_none \/ video_list.list = <<>>

AList(list) == [is_none |-> FALSE, list |-> list]

UCF_ROOT == <<"UCF_ROOT">>

list_ucf_videos_refetches(video_list, response) ==
    IF ~response.ok
    THEN [video_list |-> video_list, requests |-> <<UCF_ROOT>>, raised |-> TRUE,
          ret |-> <<>>]
    ELSE [video_list |-> AList(sorted_set(findall(response.body))),
          requests |-> <<UCF_ROOT>>, raised |-> FALSE,
          ret |-> sorted_set(findall(response.body))]

list_ucf_videos_unsorted(video_list, response) ==
    IF ~IsUnset(video_list)
    THEN [video_list |-> video_list, requests |-> <<>>, raised |-> FALSE,
          ret |-> video_list.list]
    ELSE IF ~response.ok
    THEN [video_list |-> video_list, requests |-> <<UCF_ROOT>>, raised |-> TRUE,
          ret |-> <<>>]
    ELSE [video_list |-> AList(Distinct(findall(response.body))),
          requests |-> <<UCF_ROOT>>, raised |-> FALSE,
          ret |-> Distinct(findall(response.body))]

\* list_ucf_videos(), `response` being what the server answers if it is asked:
\* the new _VIDEO_LIST, the URLs requested, and the list returned or the
\* exception raised
list_ucf_videos(video_list, response) ==
    IF ~IsUnset(video_list)
    THEN [video_list |-> video_list, requests |-> <<>>, raised |-> FALSE,
          ret |-> video_list.list]
    ELSE IF ~response.ok
    THEN [video_list |-> video_list, requests |-> <<UCF_ROOT>>, raised |-> TRUE,
          ret |-> <<>>]
    ELSE [video_list |-> AList(sorted_set(findall(response.body))),
          requests |-> <<UCF_ROOT>>, raised |-> FALSE,
          ret |-> sorted_set(findall(response.body))]

\* os.path.join(_CACHE_DIR, video)
cache_path(video) == <<"_CACHE_DIR", video>>

\* request.urljoin(UCF_ROOT, video)
urlpath(video) == <<"UCF_ROOT", video>>

\* os.path.exists(cache_path)
exists(files, video) == \E f \in Range(files) : f.name = video

\* open(cache_path, 'wb').write(data)
write(files, video, data) ==
    SelectSeq(files, LAMBDA f : f.name # video) \o <<[name |-> video, data |-> data]>>

fetch_ucf_video_always_downloads(files, video, response) ==
    IF ~response.ok
    THEN [files |-> files, requests |-> <<urlpath(video)>>, raised |-> TRUE,
          ret |-> <<>>]
    ELSE [files |-> write(files, video, response.body),
          requests |-> <<urlpath(video)>>, raised |-> FALSE,
          ret |-> cache_path(video)]

fetch_ucf_video_opens_first(files, video, response) ==
    IF exists(files, video)
    THEN [files |-> files, requests |-> <<>>, raised |-> FALSE,
          ret |-> cache_path(video)]
    ELSE IF ~response.ok
    THEN [files |-> write(files, video, <<>>), requests |-> <<urlpath(video)>>,
          raised |-> TRUE, ret |-> <<>>]
    ELSE [files |-> write(files, video, response.body),
          requests |-> <<urlpath(video)>>, raised |-> FALSE,
          ret |-> cache_path(video)]

\* fetch_ucf_video(video), `response` being what the server answers if it is
\* asked: the new files of _CACHE_DIR, the URLs requested, and the path
\* returned or the exception raised
fetch_ucf_video(files, video, response) ==
    IF exists(files, video)
    THEN [files |-> files, requests |-> <<>>, raised |-> FALSE,
          ret |-> cache_path(video)]
    ELSE IF ~response.ok
    THEN [files |-> files, requests |-> <<urlpath(video)>>, raised |-> TRUE,
          ret |-> <<>>]
    ELSE [files |-> write(files, video, response.body),
          requests |-> <<urlpath(video)>>, raised |-> FALSE,
          ret |-> cache_path(video)]

\* network requests of one run
MaxRequests == 3

\* names on a generated index page
MaxEntries == 3

\* length of an arbitrary index page
MaxPageLen == 5

Name(word) == <<"v", "_">> \o word \o <<".avi">>

ListedNames == {Name(<<"x">>), Name(<<"v">>), Name(<<"x", "x">>)}

\* an index page that lists the names of `names`, in that order
Listing(names) == Concat([k \in 1..Len(names) |-> <<" ">> \o names[k] \o <<" ">>])

Listings == {Listing(names) : names \in SeqsUpTo(ListedNames, MaxEntries)}

\* the pages the server sends in a run of several calls
SmallPages == {<<>>, Listing(<<Name(<<"x">>), Name(<<"v">>), Name(<<"x">>)>>),
               Listing(<<Name(<<"v">>)>>)}

\* the contents of the video files the server sends
Bodies == {<<"avi", 1>>, <<"avi", 2>>}

FetchNames == {Name(<<"x">>), Name(<<"v">>)}

InitUcf ==
    /\ pc = "ucf"
    /\ RetrievalIdle
    /\ DisplayIdle
    /\ VideoIdle

\* a call of list_ucf_videos()
ListUcfVideos ==
    /\ pc = "ucf"
    /\ Len(net_log) < MaxRequests
    /\ \E response \in {Failure} \cup {Response(b) : b \in SmallPages} :
          LET r == list_ucf_videos(VIDEO_LIST, response)
          IN  /\ VIDEO_LIST' = r.video_list
              /\ net_log' = net_log \o r.requests
              /\ page' = IF r.requests # <<>> /\ response.ok THEN response.body ELSE page
              /\ last_call' = [fn |-> "list_ucf_videos", video |-> <<>>,
                               existed |-> ~IsUnset(VIDEO_LIST),
                               requests |-> Len(r.requests), raised |-> r.raised,
                               ret |-> r.ret]
    /\ UNCHANGED <<pc, cache, retrieval_vars, dn_vars, cc_vars, lv_vars, pr_vars>>

\* a call of fetch_ucf_video(video)
FetchUcfVideo ==
    /\ pc = "ucf"
    /\ Len(net_log) < MaxRequests
    /\ \E video \in FetchNames, response \in {Failure} \cup {Response(b) : b \in Bodies} :
          LET r == fetch_ucf_video(cache, video, response)
          IN  /\ cache' = r.files
              /\ net_log' = net_log \o r.requests
              /\ last_call' = [fn |-> "fetch_ucf_video", video |-> video,
                               existed |-> exists(cache, video),
                               requests |-> Len(r.requests), raised |-> r.raised,
                               ret |-> r.ret]
    /\ UNCHANGED <<pc, VIDEO_LIST, page, retrieval_vars, dn_vars, cc_vars, lv_vars,
                   pr_vars>>

NextUcf == ListUcfVideos \/ FetchUcfVideo

SpecUcf == InitUcf /\ [][NextUcf]_vars

\* C11: a video name whose cache file exists is never downloaded again: a
\* fetch_ucf_video call that returns leaves the file of that name in the cache
\* directory, and every call for a name whose file exists makes no network
\* request, leaves the cache files unchanged and returns the same cache path.
C11_CachedNeverDownloadedAgain ==
    /\ [](last_call.fn = "fetch_ucf_video" /\ ~last_call.raised
            => exists(cache, last_call.video) /\ last_call.ret = cache_path(last_call.video))
    /\ [][\A video \in FetchNames :
            exists(cache, video) /\ last_call'.fn = "fetch_ucf_video"
                /\ last_call'.video = video
            => /\ net_log' = net_log
               /\ cache' = cache
               /\ ~last_call'.raised
               /\ last_call'.ret = cache_path(video)]_vars

\* a call for a cached name, after downloads of both names
C11_Witness ==
    /\ last_call.fn = "fetch_ucf_video"
    /\ last_call.existed
    /\ last_call.requests = 0
    /\ Len(cache) = 2
    /\ Len(net_log) = 2

\* C12: a failed download raises after a single request, creates no cache
\* file, and a call for a name without a cache file requests its URL once, so
\* a path is returned only for a file that holds what the server sent.
C12_FailedDownloadLeavesNoFile ==
    /\ [](last_call.fn = "fetch_ucf_video" /\ last_call.raised
            => /\ last_call.requests = 1
               /\ ~last_call.existed
               /\ ~exists(cache, last_call.video))
    /\ [](\A f \in Range(cache) : f.data \in Bodies)
    /\ [][\A video \in FetchNames :
            ~exists(cache, video) /\ last_call'.fn = "fetch_ucf_video"
                /\ last_call'.video = video
            => /\ net_log' = Append(net_log, urlpath(video))
               /\ last_call'.requests = 1]_vars

\* a download that succeeds after two failed ones for the same name
C12_Witness ==
    /\ last_call.fn = "fetch_ucf_video"
    /\ ~last_call.raised
    /\ last_call.requests = 1
    /\ net_log = <<urlpath(last_call.video), urlpath(last_call.video),
                   urlpath(last_call.video)>>
    /\ exists(cache, last_call.video)

-----------------------------------------------------------------------------
(* The action recognition notebook: frames                                 *)
(*                                                                         *)
(* A frame is an array of rows of pixels, a pixel the tuple of its         *)
(* channel values.                                                         *)

Max(a, b) == IF a >= b THEN a ELSE b

\* the positions 0 .. n-1 that seq[start:stop] selects from a sequence of
\* length n, negative bounds counting from the end
PySlice(n, start, stop) ==
    LET lo == IF start < 0 THEN Max(start + n, 0) ELSE Min(start, n)
        hi == IF stop < 0 THEN Max(stop + n, 0) ELSE Min(stop, n)
    IN  [k \in 1..Max(hi - lo, 0) |-> lo + k - 1]

\* frame[rows, cols]
Take(frame, rows, cols) ==
    [r \in 1..Len(rows) |-> [c \in 1..Len(cols) |-> frame[rows[r] + 1][cols[c] + 1]]]

crop_center_square_no_halving(frame) ==
    LET y == Len(frame)
        x == Len(frame[1])
        min_dim == Min(y, x)
        start_x == (x \div 2) - min_dim
        start_y == (y \div 2) - min_dim
    IN  Take(frame, PySlice(y, start_y, start_y + min_dim),
                    PySlice(x, start_x, start_x + min_dim))

crop_center_square(frame) ==
    LET y == Len(frame)
        x == Len(frame[1])
        min_dim == Min(y, x)
        start_x == (x \div 2) - (min_dim \div 2)
        start_y == (y \div 2) - (min_dim \div 2)
    IN  Take(frame, PySlice(y, start_y, start_y + min_dim),
                    PySlice(x, start_x, start_x + min_dim))

\* cv2.resize(frame, dsize), dsize = (width, height): every pixel of the
\* result is sampled from the frame at the proportional position
cv2_resize(frame, dsize) ==
    [r \in 1..dsize[2] |->
        [c \in 1..dsize[1] |->
            frame[((r - 1) * Len(frame)) \div dsize[2] + 1]
                 [((c - 1) * Len(frame[1])) \div dsize[1] + 1]]]

\* frame[:, :, [2, 1, 0]]
bgr_to_rgb(frame) ==
    [r \in 1..Len(frame) |->
        [c \in 1..Len(frame[r]) |-> <<frame[r][c][3], frame[r][c][2], frame[r][c][1]>>]]

\* one 8-bit channel value / 255.0, as numerator and denominator
Over255(v) == <<v, 255>>

\* np.array(frames) / 255.0
scaled(frames) ==
    [k \in 1..Len(frames) |->
        [r \in 1..Len(frames[k]) |->
            [c \in 1..Len(frames[k][r]) |->
                [ch \in 1..3 |-> Over255(frames[k][r][c][ch])]]]]

\* np.array(frames).shape
shape(frames) ==
    IF frames = <<>> THEN <<0>>
    ELSE <<Len(frames), Len(frames[1]), Len(frames[1][1]), 3>>

\* the frame whose pixel at row r, column c is the position (r, c) itself
CoordinateFrame(y, x) == [r \in 1..y |-> [c \in 1..x |-> <<r - 1, c - 1>>]]

\* channel ch (0 blue, 1 green, 2 red) of pixel (r, c) of the id-th frame of a
\* video as the decoder delivers it
Val(id, r, c, ch) == (id * 97 + r * 41 + c * 13 + ch * 101 + 158) % 256

DecodedFrame(id, y, x) ==
    [r \in 1..y |-> [c \in 1..x |-> <<Val(id, r, c, 0), Val(id, r, c, 1), Val(id, r, c, 2)>>]]

\* height or width of a frame passed to crop_center_square alone
MaxDim == 9

\* frames of a video file
MaxFrames == 3

\* max_frames argument of load_video
MaxMaxFrames == 3

FrameShapes == {<<2, 3>>, <<3, 2>>, <<3, 3>>}

Resizes == {<<1, 1>>, <<2, 2>>, <<2, 1>>}

\* a file OpenCV has no decoder for
Undecodable == [decodable |-> FALSE, frames |-> <<>>]

\* a file of n frames of y rows and x columns
Video(n, y, x) == [decodable |-> TRUE, frames |-> [k \in 1..n |-> DecodedFrame(k, y, x)]]

VideoFiles == {Undecodable} \cup {Video(n, sh[1], sh[2]) : n \in 0..MaxFrames, sh \in FrameShapes}

-----------------------------------------------------------------------------
(* crop_center_square on its own *)

InitCrop ==
    /\ pc = "crop_call"
    /\ RetrievalIdle
    /\ DisplayIdle
    /\ UcfIdle
    /\ LoadIdle
    /\ PredictIdle
    /\ cc_shape \in (1..MaxDim) \X (1..MaxDim)
    /\ cc_result = <<>>

CropCall ==
    /\ pc = "crop_call"
    /\ cc_result' = crop_center_square(CoordinateFrame(cc_shape[1], cc_shape[2]))
    /\ pc' = "crop_done"
    /\ UNCHANGED <<cc_shape, retrieval_vars, dn_vars, ucf_vars, lv_vars, pr_vars>>

NextCrop == CropCall

SpecCrop == InitCrop /\ [][NextCrop]_vars

-----------------------------------------------------------------------------
(* load_video, statement by statement *)

InitLoad ==
    /\ pc = "lv_open"
    /\ RetrievalIdle
    /\ DisplayIdle
    /\ UcfIdle
    /\ CropIdle
    /\ PredictIdle
    /\ lv_video \in VideoFiles
    /\ lv_max_frames \in 0..MaxMaxFrames
    /\ lv_resize \in Resizes
    /\ lv_read = 0
    /\ lv_frames = <<>>
    /\ lv_released = 0
    /\ lv_result = <<>>

LoadOpenRaises ==
    /\ pc = "lv_open"
    /\ IF lv_video.decodable
       THEN pc' = "lv_loop" /\ UNCHANGED lv_result
       ELSE pc' = "lv_done" /\ lv_result' = [raised |-> TRUE, shape |-> <<>>, array |-> <<>>]
    /\ UNCHANGED <<lv_video, lv_max_frames, lv_resize, lv_read, lv_frames, lv_released,
                   retrieval_vars, dn_vars, ucf_vars, cc_vars, pr_vars>>

\* cap = cv2.VideoCapture(path); frames = []
LoadOpen ==
    /\ pc = "lv_open"
    /\ pc' = "lv_loop"
    /\ UNCHANGED <<lv_video, lv_max_frames, lv_resize, lv_read, lv_frames, lv_released,
                   lv_result, retrieval_vars, dn_vars, ucf_vars, cc_vars, pr_vars>>

\* cap.read() returns no frame: break
LoadReadEnd ==
    /\ pc = "lv_loop"
    /\ ~lv_video.decodable \/ lv_read = Len(lv_video.frames)
    /\ pc' = "lv_finally"
    /\ UNCHANGED <<lv_video, lv_max_frames, lv_resize, lv_read, lv_frames, lv_released,
                   lv_result, retrieval_vars, dn_vars, ucf_vars, cc_vars, pr_vars>>

LoadReadFrameStopsAtLeast ==
    /\ pc = "lv_loop"
    /\ lv_video.decodable /\ lv_read < Len(lv_video.frames)
    /\ lv_read' = lv_read + 1
    /\ lv_frames' = Append(lv_frames,
            bgr_to_rgb(cv2_resize(crop_center_square(lv_video.frames[lv_read + 1]), lv_resize)))
    /\ pc' = IF Len(lv_frames') >= lv_max_frames THEN "lv_finally" ELSE "lv_loop"
    /\ UNCHANGED <<lv_video, lv_max_frames, lv_resize, lv_released, lv_result,
                   retrieval_vars, dn_vars, ucf_vars, cc_vars, pr_vars>>

LoadReadFrameKeepsChannels ==
    /\ pc = "lv_loop"
    /\ lv_video.decodable /\ lv_read < Len(lv_video.frames)
    /\ lv_read' = lv_read + 1
    /\ lv_frames' = Append(lv_frames,
            cv2_resize(crop_center_square(lv_video.frames[lv_read + 1]), lv_resize))
    /\ pc' = IF Len(lv_frames') = lv_max_frames THEN "lv_finally" ELSE "lv_loop"
    /\ UNCHANGED <<lv_video, lv_max_frames, lv_resize, lv_released, lv_result,
                   retrieval_vars, dn_vars, ucf_vars, cc_vars, pr_vars>>

\* cap.read() returns a frame: one pass of the loop body
LoadReadFrame ==
    /\ pc = "lv_loop"
    /\ lv_video.decodable /\ lv_read < Len(lv_video.frames)
    /\ lv_read' = lv_read + 1
    /\ lv_frames' = Append(lv_frames,
            bgr_to_rgb(cv2_resize(crop_center_square(lv_video.frames[lv_read + 1]), lv_resize)))
    /\ pc' = IF Len(lv_frames') = lv_max_frames THEN "lv_finally" ELSE "lv_loop"
    /\ UNCHANGED <<lv_video, lv_max_frames, lv_resize, lv_released, lv_result,
                   retrieval_vars, dn_vars, ucf_vars, cc_vars, pr_vars>>

\* a pass of the loop body in which cap.read(), crop_center_square or
\* cv2.resize raises on the next frame: the exception leaves the try block
LoadFrameRaises ==
    /\ pc = "lv_loop"
    /\ lv_video.decodable /\ lv_read < Len(lv_video.frames)
    /\ pc' = "lv_except"
    /\ UNCHANGED <<lv_video, lv_max_frames, lv_resize, lv_read, lv_frames, lv_released,
                   lv_result, retrieval_vars, dn_vars, ucf_vars, cc_vars, pr_vars>>

LoadReleaseOnlyOnBreak ==
    /\ pc \in {"lv_finally", "lv_except"}
    /\ lv_released' = IF pc = "lv_except" THEN lv_released ELSE lv_released + 1
    /\ IF pc = "lv_except"
       THEN /\ pc' = "lv_done"
            /\ lv_result' = [raised |-> TRUE, shape |-> <<>>, array |-> <<>>]
       ELSE /\ pc' = "lv_return"
            /\ UNCHANGED lv_result
    /\ UNCHANGED <<lv_video, lv_max_frames, lv_resize, lv_read, lv_frames,
                   retrieval_vars, dn_vars, ucf_vars, cc_vars, pr_vars>>

\* finally: cap.release(), after a break or while an exception propagates,
\* which then leaves load_video
LoadRelease ==
    /\ pc \in {"lv_finally", "lv_except"}
    /\ lv_released' = lv_released + 1
    /\ IF pc = "lv_except"
       THEN /\ pc' = "lv_done"
            /\ lv_result' = [raised |-> TRUE, shape |-> <<>>, array |-> <<>>]
       ELSE /\ pc' = "lv_return"
            /\ UNCHANGED lv_result
    /\ UNCHANGED <<lv_video, lv_max_frames, lv_resize, lv_read, lv_frames,
                   retrieval_vars, dn_vars, ucf_vars, cc_vars, pr_vars>>

\* return np.array(frames) / 255.0
LoadReturn ==
    /\ pc = "lv_return"
    /\ lv_result' = [raised |-> FALSE, shape |-> shape(lv_frames), array |-> scaled(lv_frames)]
    /\ pc' = "lv_done"
    /\ UNCHANGED <<lv_video, lv_max_frames, lv_resize, lv_read, lv_frames, lv_released,
                   retrieval_vars, dn_vars, ucf_vars, cc_vars, pr_vars>>

NextLoad ==
    \/ LoadOpen
    \/ LoadReadEnd
    \/ LoadReadFrame
    \/ LoadFrameRaises
    \/ LoadRelease
    \/ LoadReturn

SpecLoad == InitLoad /\ [][NextLoad]_vars

\* C13 as the specification states it: a video file that cannot be decoded
\* makes load_video raise an exception.
C13_UndecodableRaises ==
    pc = "lv_done" /\ ~lv_video.decodable => lv_result.raised

\* C13: a video file that cannot be decoded makes load_video return the empty
\* array, of shape (0,), without raising: the first cap.read() reports no
\* frame, the loop ends and the capture is released.
C13_UndecodableReturnsEmpty ==
    pc = "lv_done" /\ ~lv_video.decodable =>
        /\ ~lv_result.raised
        /\ lv_result.shape = <<0>>
        /\ lv_result.array = <<>>
        /\ lv_read = 0
        /\ lv_released = 1

\* load_video has returned for a file that cannot be decoded
C13_Witness ==
    /\ pc = "lv_done"
    /\ ~lv_video.decodable
    /\ lv_result.shape = <<0>>

Abs(a) == IF a >= 0 THEN a ELSE 0 - a

\* C14: for a frame of height y >= 1 and width x >= 1 crop_center_square
\* returns the complete min_dim by min_dim square that starts at offsets within
\* the frame (0 <= start, start + min_dim <= size) and whose left and right,
\* and top and bottom, margins differ by at most one pixel.
C14_CentredSquare ==
    pc = "crop_done" =>
        LET y == cc_shape[1]
            x == cc_shape[2]
            m == Min(y, x)
        IN  /\ Len(cc_result) = m
            /\ \A r \in 1..m : Len(cc_result[r]) = m
            /\ \E sy \in 0..(y - m), sx \in 0..(x - m) :
                  /\ \A r \in 1..m, c \in 1..m : cc_result[r][c] = <<sy + r - 1, sx + c - 1>>
                  /\ Abs(sy - (y - m - sy)) <= 1
                  /\ Abs(sx - (x - m - sx)) <= 1

\* a wide frame whose two margins cannot be equal
C14_Witness ==
    /\ pc = "crop_done"
    /\ cc_shape = <<5, 8>>
    /\ cc_result[1][1] = <<0, 2>>

\* C15: load_video returns the frames in decoding order, each cropped to the
\* centred square, resized to `resize`, with the channel order reversed
\* (returned channel c is decoded channel 2 - c), and every returned value is
\* the 8-bit value divided by 255, so lies in [0, 1].
C15_FramesInOrderRgbScaled ==
    pc = "lv_done" /\ ~lv_result.raised =>
        LET out == lv_result.array
        IN  /\ Len(out) <= Len(lv_video.frames)
            /\ Len(out) > 0 => lv_result.shape = <<Len(out), lv_resize[2], lv_resize[1], 3>>
            /\ \A k \in 1..Len(out) :
                  LET bgr == cv2_resize(crop_center_square(lv_video.frames[k]), lv_resize)
                  IN  /\ Len(out[k]) = lv_resize[2]
                      /\ \A r \in 1..lv_resize[2] :
                            /\ Len(out[k][r]) = lv_resize[1]
                            /\ \A c \in 1..lv_resize[1], ch \in 0..2 :
                                  /\ out[k][r][c][ch + 1] = <<bgr[r][c][(2 - ch) + 1], 255>>
                                  /\ out[k][r][c][ch + 1][1] \in 0..255

\* three different frames returned, two pixels wide and one high
C15_Witness ==
    /\ pc = "lv_done"
    /\ Len(lv_result.array) = 3
    /\ lv_resize = <<2, 1>>
    /\ lv_result.array[1] # lv_result.array[2]
    /\ lv_result.array[1][1][1] # lv_result.array[1][1][2]

-----------------------------------------------------------------------------
(* The action recognition notebook: predict                                *)
(*                                                                         *)
(* Class ids are 0-based, as in the code. A probability is kept in         *)
(* millionths, a printed percentage in hundredths of a percent.            *)

\* classes of the classifier
MaxClasses == 6

\* logits 0..MaxLogit
MaxLogit == 2

\* orders 0..MaxTie in which np.argsort leaves equal probabilities
MaxTie == 1

\* the lines predict prints after the heading
top_k == 5

\* the label file, one label per class
labels(n) == [k \in 1..n |-> <<"label", k - 1>>]

RECURSIVE Sum(_)
Sum(seq) == IF seq = <<>> THEN 0 ELSE seq[1] + Sum(Tail(seq))

\* tf.nn.softmax(logits): increasing in the logit, rounded
softmax(logits) ==
    LET total == Sum([k \in 1..Len(logits) |-> 2 ^ logits[k]])
    IN  [k \in 1..Len(logits) |-> ((2 ^ logits[k]) * 1000000) \div total]

\* the rank of class id i among classes of equal probability
TieKey(tie, i, n) ==
    IF tie % 2 = 0 THEN (i + tie \div 2) % n ELSE n - 1 - ((i + tie \div 2) % n)

\* np.argsort(probabilities): the class ids by ascending probability
argsort(probabilities, tie) ==
    LET n == Len(probabilities)
    IN  SortSeq([k \in 1..n |-> k - 1],
                LAMBDA i, j : \/ probabilities[i + 1] < probabilities[j + 1]
                              \/ /\ probabilities[i + 1] = probabilities[j + 1]
                                 /\ TieKey(tie, i, n) < TieKey(tie, j, n))

\* f'{probabilities[i] * 100:5.2f}'
percent(probability) == (probability + 50) \div 100

top_ids_ascending(probabilities, tie) == Slice(argsort(probabilities, tie), 0, top_k)

\* np.argsort(probabilities)[::-1][:5]
top_ids(probabilities, tie) == Slice(Reverse(argsort(probabilities, tie)), 0, top_k)

InitPredict ==
    /\ pc = "predict_call"
    /\ RetrievalIdle
    /\ DisplayIdle
    /\ UcfIdle
    /\ CropIdle
    /\ LoadIdle
    /\ pr_logits \in UNION {[1..n -> 0..MaxLogit] : n \in top_k..MaxClasses}
    /\ pr_tie \in 0..MaxTie
    /\ pr_top = <<>>
    /\ pr_lines = <<>>

\* predict(sample_video)
Predict ==
    /\ pc = "predict_call"
    /\ LET probabilities == softmax(pr_logits)
           ids == top_ids(probabilities, pr_tie)
       IN  /\ pr_top' = ids
           /\ pr_lines' = [k \in 1..Len(ids) |->
                              <<labels(Len(pr_logits))[ids[k] + 1],
                                percent(probabilities[ids[k] + 1])>>]
    /\ pc' = "predict_done"
    /\ UNCHANGED <<pr_logits, pr_tie, retrieval_vars, dn_vars, ucf_vars, cc_vars, lv_vars>>

NextPredict == Predict

SpecPredict == InitPredict /\ [][NextPredict]_vars

\* C16: predict prints exactly five lines, for five distinct class ids i, each
\* labelled labels[i]; the printed probabilities are non-increasing, and no
\* class it does not report has a probability greater than the last reported.
C16_TopFive ==
    pc = "predict_done" =>
        LET n == Len(pr_logits)
            probabilities == softmax(pr_logits)
        IN  /\ Len(pr_lines) = 5
            /\ Len(pr_top) = 5
            /\ \A k \in 1..5 : pr_top[k] \in 0..(n - 1)
            /\ \A k, l \in 1..5 : k # l => pr_top[k] # pr_top[l]
            /\ \A k \in 1..5 :
                  /\ pr_lines[k][1] = labels(n)[pr_top[k] + 1]
                  /\ pr_lines[k][2] = percent(probabilities[pr_top[k] + 1])
            /\ \A k \in 1..4 :
                  /\ probabilities[pr_top[k] + 1] >= probabilities[pr_top[k + 1] + 1]
                  /\ pr_lines[k][2] >= pr_lines[k + 1][2]
            /\ \A i \in 0..(n - 1) :
                  i \notin Range(pr_top) => probabilities[i + 1] <= probabilities[pr_top[5] + 1]

\* six classes of three different probabilities, the least likely one left out
C16_Witness ==
    /\ pc = "predict_done"
    /\ pr_logits = <<1, 0, 2, 1, 1, 2>>
    /\ pr_lines[1][2] > pr_lines[3][2]
    /\ 1 \notin Range(pr_top)

-----------------------------------------------------------------------------
(* list_ucf_videos, first call of a process, on any index page *)

InitList ==
    /\ pc = "list_call"
    /\ RetrievalIdle
    /\ DisplayIdle
    /\ CropIdle
    /\ LoadIdle
    /\ PredictIdle
    /\ VIDEO_LIST = None
    /\ page \in SeqsUpTo(PageTokens, MaxPageLen) \cup Listings
    /\ cache = <<>>
    /\ net_log = <<>>
    /\ last_call = NoCall

ListFirstCall ==
    /\ pc = "list_call"
    /\ LET r == list_ucf_videos(VIDEO_LIST, Response(page))
       IN  /\ VIDEO_LIST' = r.video_list
           /\ net_log' = net_log \o r.requests
           /\ last_call' = [fn |-> "list_ucf_videos", video |-> <<>>,
                            existed |-> ~IsUnset(VIDEO_LIST),
                            requests |-> Len(r.requests), raised |-> r.raised,
                            ret |-> r.ret]
    /\ pc' = "list_done"
    /\ UNCHANGED <<page, cache, retrieval_vars, dn_vars, cc_vars, lv_vars, pr_vars>>

NextList == ListFirstCall

SpecList == InitList /\ [][NextList]_vars

\* text[i..j] has the form v_<one or more word characters>.avi
PatternMatch(text, i, j) ==
    /\ 1 <= i /\ i + 3 <= j /\ j <= Len(text)
    /\ text[i] = "v"
    /\ text[i + 1] = "_"
    /\ \A q \in (i + 2)..(j - 1) : text[q] \in WordChars
    /\ text[j] = ".avi"

\* the file names on a page: the substrings of that form that are not the tail
\* of a longer one
NamesOn(text) ==
    {SubSeq(text, ij[1], ij[2]) :
        ij \in {kl \in (1..Len(text)) \X (1..Len(text)) :
                   /\ PatternMatch(text, kl[1], kl[2])
                   /\ \A h \in 1..(kl[1] - 1) : ~PatternMatch(text, h, kl[2])}}

\* C17: list_ucf_videos returns exactly the file names of the index page that
\* match v_<word characters>.avi, each once, in ascending order, whatever the
\* number and order of their occurrences on the page.
C17_NamesOnceAscending ==
    pc = "list_done" =>
        /\ ~last_call.raised
        /\ Range(last_call.ret) = NamesOn(page)
        /\ \A k \in 1..(Len(last_call.ret) - 1) :
              StrLess(last_call.ret[k], last_call.ret[k + 1])
        /\ VIDEO_LIST = AList(last_call.ret)

\* a page that lists a name twice, around a name that sorts before it
C17_Witness ==
    /\ pc = "list_done"
    /\ page = Listing(<<Name(<<"x">>), Name(<<"v">>), Name(<<"x">>)>>)
    /\ last_call.ret = <<Name(<<"v">>), Name(<<"x">>)>>

\* C20: once list_ucf_videos has obtained a non-empty list, _VIDEO_LIST does
\* not change any more, and a call makes no request and returns an equal list;
\* a call while _VIDEO_LIST is None or empty requests the index page.
C20_ListFetchedOnce ==
    /\ [][~IsUnset(VIDEO_LIST) => VIDEO_LIST' = VIDEO_LIST]_vars
    /\ [][last_call'.fn = "list_ucf_videos" =>
            IF ~IsUnset(VIDEO_LIST)
            THEN /\ net_log' = net_log
                 /\ ~last_call'.raised
                 /\ last_call'.ret = VIDEO_LIST.list
            ELSE net_log' = Append(net_log, UCF_ROOT)]_vars

\* a call answered from _VIDEO_LIST, after one request that gave no name and
\* one that gave two
C20_Witness ==
    /\ last_call.fn = "list_ucf_videos"
    /\ last_call.existed
    /\ last_call.requests = 0
    /\ Len(last_call.ret) = 2
    /\ net_log = <<UCF_ROOT, UCF_ROOT>>

-----------------------------------------------------------------------------
(* display_nearest_neighbors and output_with_highlight, statement by       *)
(* statement, on search results the index has returned                     *)

\* search results of one display
MaxResults == 2

\* the sentences the index returns
ResultTexts == {<<"a">>, <<"b", "a">>, <<"a", "a", "b">>, <<"a", "b", "a", "b">>}

\* the question displayed
DisplayQuery == <<"a", "b">>

InitDisplay ==
    /\ pc = "dn_header"
    /\ RetrievalIdle
    /\ VideoIdle
    /\ dn_answer \in SeqsUpTo(Letters, MaxHighlightLen)
    /\ dn_results \in SeqsUpTo(ResultTexts, MaxResults)
    /\ dn_done = 0
    /\ dn_md = <<>>
    /\ ow_highlight = <<>>
    /\ ow_text = <<>>
    /\ ow_output = <<>>

\* result_md = header; result_md += '<p>Retrieved sentences: <ol>'
DisplayHeader ==
    /\ pc = "dn_header"
    /\ dn_md' = (IF dn_answer # <<>>
                 THEN <<"<p>Random Question from SQuAD:</p><p>&nbsp;&nbsp;<b>">>
                      \o DisplayQuery
                      \o <<"</b></p><p>Answer:</p><p>&nbsp;&nbsp;<b>">> \o dn_answer
                      \o <<"</b></p>">>
                 ELSE <<"<p>Random Question from SQuAD:</p><p>&nbsp;&nbsp;<b>">>
                      \o DisplayQuery \o <<"</b></p>">>)
                \o <<"<p>Retrieved sentences:<ol>">>
    /\ pc' = "dn_loop"
    /\ UNCHANGED <<dn_answer, dn_results, dn_done, ow_highlight, ow_text, ow_output,
                   retrieval_vars, video_vars>>

DisplayCallHighlightAlways ==
    /\ pc = "dn_loop"
    /\ dn_done < Len(dn_results)
    /\ ow_text' = dn_results[dn_done + 1]
    /\ ow_highlight' = dn_answer
    /\ ow_output' = <<"<li> ">>
    /\ pc' = "ow_loop"
    /\ UNCHANGED <<dn_answer, dn_results, dn_done, dn_md, retrieval_vars, video_vars>>

\* if answer_text: the loop takes the next s and calls
\* output_with_highlight(s, answer_text), which sets output = '<li> '
DisplayCallHighlight ==
    /\ pc = "dn_loop"
    /\ dn_done < Len(dn_results)
    /\ dn_answer # <<>>
    /\ ow_text' = dn_results[dn_done + 1]
    /\ ow_highlight' = dn_answer
    /\ ow_output' = <<"<li> ">>
    /\ pc' = "ow_loop"
    /\ UNCHANGED <<dn_answer, dn_results, dn_done, dn_md, retrieval_vars, video_vars>>

\* else: the loop takes the next s and adds '<li>' + s + '</li>\n'
DisplayPlainItem ==
    /\ pc = "dn_loop"
    /\ dn_done < Len(dn_results)
    /\ dn_answer = <<>>
    /\ dn_md' = dn_md \o plain_item(dn_results[dn_done + 1])
    /\ dn_done' = dn_done + 1
    /\ UNCHANGED <<pc, dn_answer, dn_results, ow_highlight, ow_text, ow_output,
                   retrieval_vars, video_vars>>

\* one pass of `while True` with i # -1
HighlightFound ==
    /\ pc = "ow_loop"
    /\ find(ow_text, ow_highlight) # -1
    /\ LET i == find(ow_text, ow_highlight)
       IN  /\ ow_output' = ow_output \o Slice(ow_text, 0, i) \o <<"<b>">>
                             \o Slice(ow_text, i, i + Len(ow_highlight)) \o <<"<b>">>
           /\ ow_text' = Slice(ow_text, i + Len(ow_highlight), Len(ow_text))
    /\ UNCHANGED <<pc, dn_answer, dn_results, dn_done, dn_md, ow_highlight,
                   retrieval_vars, video_vars>>

\* the pass with i = -1: output += text, break, return output + '</li>\n',
\* which the caller adds to result_md
HighlightNotFound ==
    /\ pc = "ow_loop"
    /\ find(ow_text, ow_highlight) = -1
    /\ ow_output' = ow_output \o ow_text
    /\ dn_md' = dn_md \o ow_output' \o <<"</li>\n">>
    /\ dn_done' = dn_done + 1
    /\ pc' = "dn_loop"
    /\ UNCHANGED <<dn_answer, dn_results, ow_highlight, ow_text, retrieval_vars,
                   video_vars>>

\* result_md += '</ol>'; display(HTML(result_md))
DisplayFooter ==
    /\ pc = "dn_loop"
    /\ dn_done = Len(dn_results)
    /\ dn_md' = dn_md \o <<"</ol>">>
    /\ pc' = "dn_done"
    /\ UNCHANGED <<dn_answer, dn_results, dn_done, ow_highlight, ow_text, ow_output,
                   retrieval_vars, video_vars>>

NextDisplay ==
    \/ DisplayHeader
    \/ DisplayCallHighlight
    \/ DisplayPlainItem
    \/ HighlightFound
    \/ HighlightNotFound
    \/ DisplayFooter

\* the interpreter runs a call that can take a step
SpecDisplay == InitDisplay /\ [][NextDisplay]_vars /\ WF_vars(NextDisplay)

\* the statement-by-statement run computes what render_results computes
DisplayAgreesWithRenderResults ==
    pc = "dn_done" => dn_md = render_results(DisplayQuery, dn_answer, dn_results)

\* C18: output_with_highlight is only ever running with a non-empty highlight
\* (display_nearest_neighbors calls it only if answer_text is non-empty), every
\* pass of its loop that does not leave it shortens text by at least one
\* character, and so every call returns and the display completes.
C18_HighlightTerminates ==
    /\ [](pc = "ow_loop" => ow_highlight # <<>>)
    /\ [][pc = "ow_loop" /\ pc' = "ow_loop"
            => Len(ow_text') <= Len(ow_text) - Len(ow_highlight)
               /\ Len(ow_text') < Len(ow_text)]_vars
    /\ (pc = "ow_loop" ~> pc = "dn_loop")
    /\ <>(pc = "dn_done")

\* a display of two results, an answer emphasised twice in one of them
C18_Witness ==
    /\ pc = "dn_done"
    /\ dn_done = 2
    /\ dn_answer = <<"a", "b">>
    /\ dn_results[2] = <<"a", "b", "a", "b">>
    /\ Len(SelectSeq(dn_md, LAMBDA t : t = "<b>")) >= 4

\* C19: output_with_highlight's result is the list-item opener, then text with
\* emphasis tags inserted, then the closer: without the wrapper and the tags
\* it is text again.
C19_TextPreserved ==
    pc = "highlight_done" =>
        /\ Len(hl_result) >= 2
        /\ hl_result[1] = "<li> "
        /\ hl_result[Len(hl_result)] = "</li>\n"
        /\ SelectSeq(SubSeq(hl_result, 2, Len(hl_result) - 1), LAMBDA t : t # "<b>")
               = hl_text

\* a text with two occurrences of the highlight, and text around them
C19_Witness ==
    /\ pc = "highlight_done"
    /\ hl_text = <<"a", "b", "a", "b">>
    /\ hl_highlight = <<"b">>
    /\ Len(SelectSeq(hl_result, LAMBDA t : t = "<b>")) = 4

\* C21: for a video of n decodable frames load_video, when it returns, returns
\* min(n, max_frames) frames if max_frames >= 1 and all n frames if
\* max_frames = 0; it has read no frame it does not return, and once
\* max_frames frames are collected it reads no further frame.
C21_FrameCount ==
    /\ [](pc = "lv_done" /\ ~lv_result.raised /\ lv_video.decodable
            => /\ Len(lv_result.array) = IF lv_max_frames >= 1
                                         THEN Min(Len(lv_video.frames), lv_max_frames)
                                         ELSE Len(lv_video.frames)
               /\ lv_read = Len(lv_result.array)
               /\ lv_max_frames >= 1 => Len(lv_result.array) <= lv_max_frames)
    /\ [][lv_max_frames >= 1 /\ Len(lv_frames) = lv_max_frames
            => lv_read' = lv_read /\ lv_frames' = lv_frames]_vars

\* two of three frames returned because max_frames is 2
C21_Witness ==
    /\ pc = "lv_done"
    /\ ~lv_result.raised
    /\ Len(lv_video.frames) = 3
    /\ lv_max_frames = 2
    /\ Len(lv_result.array) = 2
    /\ lv_read = 2

\* C22: cap.release() is called exactly once on every way out of load_video
\* after the capture is opened: when the stream ends, when max_frames is
\* reached, and when reading, cropping or resizing a frame raises; it is not
\* called before the loop is left, and has been called when control leaves.
C22_ReleasedExactlyOnce ==
    /\ lv_released <= 1
    /\ pc \in {"lv_open", "lv_loop", "lv_finally", "lv_except"} => lv_released = 0
    /\ pc \in {"lv_return", "lv_done"} => lv_released = 1

\* an exception on the third frame has left load_video, the capture released
C22_Witness ==
    /\ pc = "lv_done"
    /\ lv_result.raised
    /\ lv_read = 2
    /\ lv_released = 1

====
